---- MODULE Spec2Model ----
(***************************************************************************)
(* Model of folder2cbz.py: the archive-source polling loop (main), the     *)
(* per-unit conversion and packaging (process_comic_folder, process_image, *)
(* compress_to_cbz), the rescan notification (scan_library_with_env) and   *)
(* the batch scheduler (submit_dir_comb).                                  *)
(***************************************************************************)
EXTENDS Integers, FiniteSets, Sequences, TLC

\* ------------------------------------------------------------------ bounds
NumInputs == 2      \* input archives that can show up in the source directory
NumImages == 2      \* image files in an extracted unit
MaxRuns == 2        \* completed batches (run_count) after which scanning stops
NumJobs == 3        \* units handed to submit_dir_comb
MaxWorkers == 2     \* largest max_workers tried
MaxDim == 6         \* largest image width and height probed
MaxRes == 12        \* largest max_resolution tried
MaxName == 3        \* longest unit directory name, in characters
MaxTime == 2        \* latest file time and descriptor date
MaxFiles == 4       \* most files in one directory of the source tree
MaxEntries == 4     \* most top-level entries of an extracted archive

Inputs == 1..NumInputs
Images == 1..NumImages
Jobs == 1..NumJobs

None == "none"
NoDir == <<"none", 0>>
NoCbz == [present |-> FALSE, written |-> {}, closed |-> FALSE]
NoFile == [owner |-> 0, complete |-> FALSE]

\* ------------------------------------------------------------------ state
VARIABLES
    \* main
    delete_source_targz,    \* main's parameter
    loc,                    \* where each input file is
    layout,                 \* what each input archive unpacks to
    stage,                  \* per-input position in main's for-body
    pc,                     \* main's position
    uncaught,               \* the call whose exception left main, or "none"
    targz_files_to_process, \* inputs of this cycle still to iterate
    targz_path,             \* the input being processed, 0 outside the for-body
    comic_source_dir,       \* name of the unit root chosen after extraction
    staged,                 \* the .cbz under temp_cbz_output_path
    published,              \* the .cbz files under final_target_dir, by name
    convCount,              \* how often each input's archive was moved to final_target_dir
    scan_needed,
    run_count,
    notifyCalls,            \* calls of scan_library_with_env
    httpPosts,              \* requests.post calls made
    notifyOutcome,          \* what the last notification call met
    scanResult,             \* what the last notification call returned
    batchSinceIdle,         \* a batch completed since the last empty scan
    publishedSinceNotify,   \* an archive was published since the last call
    \* process_comic_folder
    upc,                    \* its position
    nextImg,                \* next image handed to process_image
    okImgs,                 \* images whose process_image ended without exception
    tempFiles,              \* files in temp_dir
    cbz,                    \* the archive file at cbz_path
    \* submit_dir_comb
    jobState, max_workers, collected, pbar, bpc,
    \* process_image 176-191
    ipc,                    \* its position
    width, height,          \* what ffprobe reported
    max_resolution,         \* its parameter
    target_width, target_height,
    \* process_comic_folder 324-389: metadata, placement, timestamps
    mpc,                    \* its position
    comic_name,             \* comic_source_dir.name, a sequence of characters
    imageMtimes,            \* st_mtime of the unit's image files
    folderMtime,            \* st_mtime of comic_source_dir
    descriptor,             \* galleryinfo.txt
    organize_by_date,       \* parameter
    latest_mod_time,
    galleryinfo,
    comicinfo,              \* the fields written to ComicInfo.xml
    cbz_dir,                \* directory of cbz_path under target_dir
    cbz_mtime,              \* times os.utime gave the archive
    \* get_img_dir_comb 260-279, get_galleryinfo_dir_comb 414-442
    listing,                \* per directory of the tree: its files, by kind
    nameReserved,           \* per directory: its name holds @eaDir or @Recycle
    gate,                   \* per directory: the gallery_info file is in it
    walk,                   \* directories os.walk has yet to yield
    scan_no,
    dir_comb,
    first_comb,             \* dir_comb of the first scan
    \* main 491-501: choice of the unit root
    rpc,
    archive_entries,        \* top-level entries packed in the archive
    extracted_items,        \* temp_extract_path.iterdir()
    unit_root

mainVars == <<delete_source_targz, loc, layout, stage, pc, uncaught,
              targz_files_to_process, targz_path, comic_source_dir, staged,
              published, convCount, scan_needed, run_count, notifyCalls,
              httpPosts, notifyOutcome, scanResult, batchSinceIdle,
              publishedSinceNotify>>
unitVars == <<upc, nextImg, okImgs, tempFiles, cbz>>
batchVars == <<jobState, max_workers, collected, pbar, bpc>>
imageVars == <<ipc, width, height, max_resolution, target_width, target_height>>
metaVars == <<mpc, comic_name, imageMtimes, folderMtime, descriptor,
              organize_by_date, latest_mod_time, galleryinfo, comicinfo,
              cbz_dir, cbz_mtime>>
metaInputs == <<comic_name, imageMtimes, folderMtime, descriptor, organize_by_date>>
classVars == <<listing, nameReserved, gate, walk, scan_no, dir_comb, first_comb>>
rootVars == <<rpc, archive_entries, extracted_items, unit_root>>
pureVars == <<imageVars, metaVars, classVars, rootVars>>
vars == <<mainVars, unitVars, batchVars, pureVars>>

passVars == <<comic_source_dir, staged>>
notifyVars == <<scan_needed, notifyCalls, httpPosts, notifyOutcome, scanResult,
                batchSinceIdle, publishedSinceNotify>>
otherVars == <<unitVars, batchVars, pureVars>>

\* ------------------------------------------------------------ file system
\* What shutil.unpack_archive leaves under temp_extract_path: files directly
\* in it, or exactly one directory.
Layouts == {"files", "one_dir"}

\* loc[i] says where the file of input i is: "absent" (not yet dropped),
\* "source", "failed" (in source/failed), "deleted" (unlinked by main) or
\* "gone" (removed by somebody else).
Exists(i) == loc[i] \in {"source", "failed"}

\* get_targz_files: source_path.iterdir(), files only, suffix .tar.gz
\* (failed/ is an entry of the source directory, but not a file).
ScanRecursive == {i \in Inputs : loc[i] \in {"source", "failed"}}
get_targz_files == {i \in Inputs : loc[i] = "source"}

\* main 495-501: the unit root is the sole top-level directory, else the
\* extraction root, whose name is always "extracted" (main 482).
DirName(i) == <<"dir", i>>
UnitRoot(i) ==
    IF layout[i] = "one_dir" THEN DirName(i) ELSE <<"extracted", 0>>

\* process_comic_folder 373, 382 and main 517-518: <unit root name>.cbz,
\* kept relative to the publication directory.
CbzPath(dir) == dir
CbzNames == {<<"extracted", 0>>} \cup {DirName(i) : i \in Inputs}

\* main 537: every exception raised inside the try-body lands in the handler.
OnExceptionSwallowPackaging(step) == IF step = "convert" THEN "publish" ELSE "handler"
OnException(step) == "handler"

\* main 465-468: the call is wrapped in try/except Exception.
NotifyNextUncaught(result) == IF result = "raised" THEN "crashed" ELSE "sleep"
NotifyNext(result) == "sleep"

\* main 469
ScanNeededStaysSet == TRUE
ScanNeededAfterIdle == FALSE

\* scan_library_with_env 70-98
NotifyOutcomes == {"env_missing", "status_202", "status_other", "network_error"}
ScanResultOf(outcome) ==
    CASE outcome = "env_missing" -> "raised"
      [] outcome = "status_202" -> "success"
      [] outcome = "status_other" -> "error"
      [] outcome = "network_error" -> "exception"
PostsOf(outcome) == IF outcome = "env_missing" THEN 0 ELSE 1

\* process_comic_folder as main sees it: it returns, or raises before the
\* archive file exists (320-384), while it is being written (385), or after
\* it was closed (389).
ConvertOutcomes == {"returned", "raised_before_zip", "raised_in_zip", "raised_after_zip"}
StagedAfter(outcome) ==
    CASE outcome = "returned" -> "complete"
      [] outcome = "raised_before_zip" -> "none"
      [] outcome = "raised_in_zip" -> "partial"
      [] outcome = "raised_after_zip" -> "complete"

\* ------------------------------------------------------------------- Init
InitMain ==
    /\ delete_source_targz \in BOOLEAN
    /\ loc = [i \in Inputs |-> "absent"]
    /\ layout = [i \in Inputs |-> "files"]
    /\ stage = [i \in Inputs |-> None]
    /\ pc = "scan"
    /\ uncaught = None
    /\ targz_files_to_process = {}
    /\ targz_path = 0
    /\ comic_source_dir = NoDir
    /\ staged = "none"
    /\ published = [n \in CbzNames |-> NoFile]
    /\ convCount = [i \in Inputs |-> 0]
    /\ scan_needed = FALSE
    /\ run_count = 0
    /\ notifyCalls = 0
    /\ httpPosts = 0
    /\ notifyOutcome = None
    /\ scanResult = None
    /\ batchSinceIdle = FALSE
    /\ publishedSinceNotify = FALSE

InitUnitIdle ==
    /\ upc = "idle"
    /\ nextImg = 1
    /\ okImgs = {}
    /\ tempFiles = {}
    /\ cbz = NoCbz

InitBatchIdle ==
    /\ jobState = [j \in Jobs |-> "none"]
    /\ max_workers = 1
    /\ collected = {}
    /\ pbar = 0
    /\ bpc = "idle"

InitImageIdle ==
    /\ ipc = "idle"
    /\ width = 1
    /\ height = 1
    /\ max_resolution = 1
    /\ target_width = 0
    /\ target_height = 0

\* Text values are sequences of characters; these stand for Python's None,
\* for a descriptor line that is not there, and for a time not yet set.
NoAuthor == <<"None">>
Absent == <<"absent">>
NoGalleryInfo == [title |-> <<>>, author |-> NoAuthor, download_time |-> 0, tags |-> <<>>]
NoDescriptor ==
    [exists |-> FALSE, title |-> Absent, author |-> Absent, tags |-> Absent,
     downloaded |-> [kind |-> "absent", date |-> 0]]

InitMetaIdle ==
    /\ mpc = "idle"
    /\ comic_name = <<>>
    /\ imageMtimes = {}
    /\ folderMtime = 1
    /\ descriptor = NoDescriptor
    /\ organize_by_date = FALSE
    /\ latest_mod_time = 0
    /\ galleryinfo = NoGalleryInfo
    /\ comicinfo = NoGalleryInfo
    /\ cbz_dir = <<"unset", 0>>
    /\ cbz_mtime = 0

\* The source tree has a directory and a directory inside it; os.walk yields
\* them top-down.
Dirs == <<"comic", "comic/extras">>
DirSet == {Dirs[n] : n \in 1..Len(Dirs)}
NoFiles == [img |-> 0, other |-> 0, dropped_img |-> 0, dropped_other |-> 0]

InitClassIdle ==
    /\ listing = [d \in DirSet |-> NoFiles]
    /\ nameReserved = [d \in DirSet |-> FALSE]
    /\ gate = [d \in DirSet |-> FALSE]
    /\ walk = <<>>
    /\ scan_no = 0
    /\ dir_comb = {}
    /\ first_comb = {}

EntryNames == 1..MaxEntries
InitRootIdle ==
    /\ rpc = "idle"
    /\ archive_entries = [e \in EntryNames |-> "none"]
    /\ extracted_items = [e \in EntryNames |-> "none"]
    /\ unit_root = NoDir

InitPureIdle == InitImageIdle /\ InitMetaIdle /\ InitClassIdle /\ InitRootIdle

Init == InitMain /\ InitUnitIdle /\ InitBatchIdle /\ InitPureIdle

\* ------------------------------------------------------------ environment
\* A new .tar.gz is dropped into the source directory. The program reads the
\* directory only in get_targz_files, so an arrival at any other moment is
\* the same as one just before the next scan.
Arrive(i) ==
    /\ loc[i] = "absent"
    /\ pc \in {"scan", "sleep"}
    /\ \E l \in Layouts : layout' = [layout EXCEPT ![i] = l]
    /\ loc' = [loc EXCEPT ![i] = "source"]
    /\ UNCHANGED <<delete_source_targz, stage, pc, uncaught, targz_files_to_process,
                   targz_path, passVars, published, convCount, run_count,
                   notifyVars, otherVars>>

\* Another process removes the input that main is working on: after the scan
\* listed it (before 491), before the unlink (532) or before the move (542).
Vanish(i) ==
    /\ loc[i] = "source"
    /\ i = targz_path
    /\ pc \in {"extract", "delete", "handler"}
    /\ loc' = [loc EXCEPT ![i] = "gone"]
    /\ UNCHANGED <<delete_source_targz, layout, stage, pc, uncaught,
                   targz_files_to_process, targz_path, passVars, published,
                   convCount, run_count, notifyVars, otherVars>>

\* ------------------------------------------------------------------ main
\* main 460-473: the scan finds nothing.
ScanEmpty ==
    /\ pc = "scan"
    /\ get_targz_files = {}
    /\ IF scan_needed
       THEN \E o \in NotifyOutcomes :
              /\ notifyCalls' = notifyCalls + 1
              /\ httpPosts' = httpPosts + PostsOf(o)
              /\ notifyOutcome' = o
              /\ scanResult' = ScanResultOf(o)
              /\ pc' = NotifyNext(ScanResultOf(o))
              /\ uncaught' = IF NotifyNext(ScanResultOf(o)) = "crashed"
                             THEN "notify" ELSE uncaught
              /\ scan_needed' = ScanNeededAfterIdle
              /\ publishedSinceNotify' = FALSE
       ELSE /\ pc' = "sleep"
            /\ UNCHANGED <<notifyCalls, httpPosts, notifyOutcome, scanResult,
                           uncaught, scan_needed, publishedSinceNotify>>
    /\ batchSinceIdle' = FALSE
    /\ UNCHANGED <<delete_source_targz, loc, layout, stage, targz_files_to_process,
                   targz_path, passVars, published, convCount, run_count, otherVars>>

\* main 472-473
Sleep ==
    /\ pc = "sleep"
    /\ pc' = "scan"
    /\ UNCHANGED <<delete_source_targz, loc, layout, stage, uncaught,
                   targz_files_to_process, targz_path, passVars, published,
                   convCount, run_count, notifyVars, otherVars>>

\* main 460-462, 476: the scan finds inputs.
ScanFound ==
    /\ pc = "scan"
    /\ get_targz_files # {}
    /\ run_count < MaxRuns
    /\ targz_files_to_process' = get_targz_files
    /\ stage' = [i \in Inputs |->
                    IF i \in get_targz_files THEN "discovered" ELSE stage[i]]
    /\ pc' = "for"
    /\ UNCHANGED <<delete_source_targz, loc, layout, uncaught, targz_path, passVars,
                   published, convCount, run_count, notifyVars, otherVars>>

\* main 476-486: the next input of the cycle, in iterdir's order.
StartInput(i) ==
    /\ pc = "for"
    /\ i \in targz_files_to_process
    /\ targz_files_to_process' = targz_files_to_process \ {i}
    /\ targz_path' = i
    /\ stage' = [stage EXCEPT ![i] = "extracting"]
    /\ pc' = "extract"
    /\ UNCHANGED <<delete_source_targz, loc, layout, uncaught, passVars, published,
                   convCount, run_count, notifyVars, otherVars>>

\* An exception inside the try-body of the current input.
Raise(step) ==
    /\ pc' = OnException(step)
    /\ stage' = IF OnException(step) = "handler"
                THEN [stage EXCEPT ![targz_path] = "failed"]
                ELSE [stage EXCEPT ![targz_path] = "publishing"]

\* main 491-501: shutil.unpack_archive, then the choice of the unit root.
Unpack ==
    /\ pc = "extract"
    /\ \E ok \in BOOLEAN :
         IF ok /\ Exists(targz_path)
         THEN /\ comic_source_dir' = UnitRoot(targz_path)
              /\ stage' = [stage EXCEPT ![targz_path] = "converting"]
              /\ pc' = "convert"
         ELSE /\ Raise("extract")
              /\ UNCHANGED comic_source_dir
    /\ UNCHANGED <<delete_source_targz, loc, layout, uncaught, targz_files_to_process,
                   targz_path, staged, published, convCount, run_count,
                   notifyVars, otherVars>>

\* main 505-506: process_comic_folder writes under temp_cbz_output_path.
Convert ==
    /\ pc = "convert"
    /\ \E o \in ConvertOutcomes :
         /\ staged' = StagedAfter(o)
         /\ IF o = "returned"
            THEN /\ pc' = "publish"
                 /\ stage' = [stage EXCEPT ![targz_path] = "publishing"]
            ELSE Raise("convert")
    /\ UNCHANGED <<delete_source_targz, loc, layout, uncaught, targz_files_to_process,
                   targz_path, comic_source_dir, published, convCount, run_count,
                   notifyVars, otherVars>>

\* Leaving the with-block of main 480 removes the temporary directory.
EndPass ==
    /\ targz_path' = 0
    /\ comic_source_dir' = NoDir
    /\ staged' = "none"

\* main 511-527: the staged archive is looked up and moved to final_target_dir.
PublishWithoutMove ==
    /\ pc = "publish"
    /\ pc' = "delete"
    /\ stage' = [stage EXCEPT ![targz_path] = "done"]
    /\ UNCHANGED <<delete_source_targz, loc, layout, uncaught, targz_files_to_process,
                   targz_path, comic_source_dir, staged, published, convCount,
                   run_count, notifyVars, otherVars>>
Publish ==
    /\ pc = "publish"
    /\ \E ok \in BOOLEAN :
         IF ok /\ staged # "none"
         THEN /\ published' = [published EXCEPT ![CbzPath(comic_source_dir)] =
                    [owner |-> targz_path, complete |-> (staged = "complete")]]
              /\ staged' = "none"
              /\ convCount' = [convCount EXCEPT ![targz_path] = @ + 1]
              /\ stage' = [stage EXCEPT ![targz_path] = "done"]
              /\ publishedSinceNotify' = TRUE
              /\ pc' = "delete"
         ELSE /\ Raise("publish")
              /\ UNCHANGED <<published, staged, convCount, publishedSinceNotify>>
    /\ UNCHANGED <<delete_source_targz, loc, layout, uncaught, targz_files_to_process,
                   targz_path, comic_source_dir, run_count, scan_needed, notifyCalls,
                   httpPosts, notifyOutcome, scanResult, batchSinceIdle, otherVars>>

\* main 530-535: the optional unlink, whose OSError is caught.
DeleteSource ==
    /\ pc = "delete"
    /\ \E ok \in BOOLEAN :
         loc' = IF delete_source_targz /\ ok /\ Exists(targz_path)
                THEN [loc EXCEPT ![targz_path] = "deleted"]
                ELSE loc
    /\ pc' = "for"
    /\ EndPass
    /\ UNCHANGED <<delete_source_targz, layout, stage, uncaught,
                   targz_files_to_process, published, convCount, run_count,
                   notifyVars, otherVars>>

\* main 537-543: the handler moves the input to failed/; nothing guards the
\* mkdir and the move.
Relocate ==
    /\ pc = "handler"
    /\ \E ok \in BOOLEAN :
         IF ok /\ Exists(targz_path)
         THEN /\ loc' = [loc EXCEPT ![targz_path] = "failed"]
              /\ pc' = "for"
              /\ UNCHANGED uncaught
         ELSE /\ pc' = "crashed"
              /\ uncaught' = "relocate"
              /\ UNCHANGED loc
    /\ EndPass
    /\ UNCHANGED <<delete_source_targz, layout, stage, targz_files_to_process,
                   published, convCount, run_count, notifyVars, otherVars>>

\* main 545-547: the for-loop is exhausted.
BatchEnd ==
    /\ pc = "for"
    /\ targz_files_to_process = {}
    /\ run_count' = run_count + 1
    /\ scan_needed' = TRUE
    /\ batchSinceIdle' = TRUE
    /\ pc' = "scan"
    /\ UNCHANGED <<delete_source_targz, loc, layout, stage, uncaught,
                   targz_files_to_process, targz_path, passVars, published,
                   convCount, notifyCalls, httpPosts, notifyOutcome, scanResult,
                   publishedSinceNotify, otherVars>>

Next ==
    \/ \E i \in Inputs : Arrive(i)
    \/ \E i \in Inputs : Vanish(i)
    \/ ScanEmpty
    \/ Sleep
    \/ ScanFound
    \/ \E i \in Inputs : StartInput(i)
    \/ Unpack
    \/ Convert
    \/ Publish
    \/ DeleteSource
    \/ Relocate
    \/ BatchEnd

Spec == Init /\ [][Next]_vars

\* main is one thread that no step blocks for ever: sleep returns, and the
\* external calls return or raise. The environment owes nothing.
MainStep ==
    \/ ScanEmpty
    \/ Sleep
    \/ ScanFound
    \/ \E i \in Inputs : StartInput(i)
    \/ Unpack
    \/ Convert
    \/ Publish
    \/ DeleteSource
    \/ Relocate
    \/ BatchEnd

SpecLive == Init /\ [][Next]_vars /\ WF_vars(MainStep)

\* ------------------------------------------------- process_comic_folder
ComicInfoXml == <<"ComicInfo.xml", 0>>
Target(k) == <<"img", k>>
Backup(k) == <<"img_original", k>>

\* Where process_image can stop: nowhere, at ffprobe (174-176), at the
\* transcoder (208), at the exiftool call that stamps DateTimeOriginal (219)
\* or at the one that copies the tags (223).
ImageOutcomes == {"ok", "probe_failed", "transcode_failed", "stamp_failed", "copy_failed"}

\* process_image: the files it leaves under target_dir. ffmpeg writes
\* target_path (208); the two exiftool calls run after that, and the first
\* leaves a <target>_original backup that only 227-229 removes.
ProcessImageLeaves(k, outcome, stamped) ==
    CASE outcome = "ok" -> {Target(k)}
      [] outcome \in {"probe_failed", "transcode_failed"} -> {}
      [] outcome = "stamp_failed" -> {Target(k)}
      [] outcome = "copy_failed" ->
            {Target(k)} \cup (IF stamped THEN {Backup(k)} ELSE {})

InitUnit ==
    /\ InitMain
    /\ delete_source_targz
    /\ InitBatchIdle
    /\ InitPureIdle
    /\ upc = "images"
    /\ nextImg = 1
    /\ okImgs = {}
    /\ tempFiles = {}
    /\ cbz = NoCbz

\* process_comic_folder 325-329: one image through process_image, which
\* catches every exception (232-235).
ProcessImage ==
    /\ upc = "images"
    /\ nextImg <= NumImages
    /\ \E o \in ImageOutcomes :
       \E stamped \in (IF o = "copy_failed" THEN BOOLEAN ELSE {FALSE}) :
         /\ tempFiles' = tempFiles \cup ProcessImageLeaves(nextImg, o, stamped)
         /\ okImgs' = IF o = "ok" THEN okImgs \cup {nextImg} ELSE okImgs
    /\ nextImg' = nextImg + 1
    /\ UNCHANGED <<upc, cbz, mainVars, batchVars, pureVars>>

\* process_comic_folder 331-370: GalleryInfo and ComicInfo.xml in temp_dir.
WriteComicInfo ==
    /\ upc = "images"
    /\ nextImg > NumImages
    /\ \E ok \in BOOLEAN :
         IF ok
         THEN /\ tempFiles' = tempFiles \cup {ComicInfoXml}
              /\ upc' = "zip"
         ELSE /\ upc' = "raised"
              /\ UNCHANGED tempFiles
    /\ UNCHANGED <<nextImg, okImgs, cbz, mainVars, batchVars, pureVars>>

\* process_comic_folder 384-385, compress_to_cbz 253: the archive file is
\* created, empty, at cbz_path.
ZipOpen ==
    /\ upc = "zip"
    /\ ~cbz.present
    /\ \E ok \in BOOLEAN :
         IF ok
         THEN /\ cbz' = [present |-> TRUE, written |-> {}, closed |-> FALSE]
              /\ UNCHANGED upc
         ELSE /\ upc' = "raised"
              /\ UNCHANGED cbz
    /\ UNCHANGED <<nextImg, okImgs, tempFiles, mainVars, batchVars, pureVars>>

\* compress_to_cbz 254-257: one more member, in os.walk's order.
ZipWrite ==
    /\ upc = "zip"
    /\ cbz.present
    /\ cbz.written # tempFiles
    /\ \E ok \in BOOLEAN :
         IF ok
         THEN /\ cbz' = [cbz EXCEPT !.written =
                    @ \cup {CHOOSE f \in tempFiles \ cbz.written : TRUE}]
              /\ UNCHANGED upc
         ELSE /\ upc' = "raised"
              /\ UNCHANGED cbz
    /\ UNCHANGED <<nextImg, okImgs, tempFiles, mainVars, batchVars, pureVars>>

\* compress_to_cbz 253: leaving the with-block writes the central directory.
ZipClose ==
    /\ upc = "zip"
    /\ cbz.present
    /\ cbz.written = tempFiles
    /\ \E ok \in BOOLEAN :
         IF ok
         THEN /\ cbz' = [cbz EXCEPT !.closed = TRUE]
              /\ upc' = "utime"
         ELSE /\ upc' = "raised"
              /\ UNCHANGED cbz
    /\ UNCHANGED <<nextImg, okImgs, tempFiles, mainVars, batchVars, pureVars>>

\* process_comic_folder 389-391
Utime ==
    /\ upc = "utime"
    /\ \E ok \in BOOLEAN : upc' = IF ok THEN "returned" ELSE "raised"
    /\ UNCHANGED <<nextImg, okImgs, tempFiles, cbz, mainVars, batchVars, pureVars>>

\* What main's Convert step sees of a finished call.
UnitOutcome ==
    CASE upc = "returned" -> "returned"
      [] upc = "raised" /\ ~cbz.present -> "raised_before_zip"
      [] upc = "raised" /\ cbz.present /\ ~cbz.closed -> "raised_in_zip"
      [] upc = "raised" /\ cbz.closed -> "raised_after_zip"
      [] OTHER -> "running"

\* The state of the archive file as main's staged records it.
CbzState ==
    IF ~cbz.present THEN "none"
    ELSE IF cbz.closed /\ cbz.written = tempFiles THEN "complete" ELSE "partial"

\* Every way process_comic_folder ends is one of Convert's outcomes, with
\* the archive file in the state Convert gives it.
UnitMatchesConvert ==
    UnitOutcome # "running" =>
        /\ UnitOutcome \in ConvertOutcomes
        /\ StagedAfter(UnitOutcome) = CbzState

NextUnit ==
    \/ ProcessImage
    \/ WriteComicInfo
    \/ ZipOpen
    \/ ZipWrite
    \/ ZipClose
    \/ Utime

SpecUnit == InitUnit /\ [][NextUnit]_vars

\* -------------------------------------------------------- submit_dir_comb
\* submit_dir_comb 406-411: what the collecting loop does with a future's
\* result: every Exception is caught and logged.
CollectNextUncaught(result) == IF result = "raised" THEN "raised" ELSE "collecting"
CollectNext(result) == "collecting"

Submitted == {j \in Jobs : jobState[j] # "none"}
Finished == {j \in Jobs : jobState[j] \in {"done", "raised"}}
Running == {j \in Jobs : jobState[j] = "running"}

\* submit_dir_comb 395-402: every unit of dir_comb is submitted before the
\* first result is collected.
InitBatch ==
    /\ InitMain
    /\ delete_source_targz
    /\ InitUnitIdle
    /\ InitPureIdle
    /\ \E n \in 0..NumJobs :
         jobState = [j \in Jobs |-> IF j <= n THEN "pending" ELSE "none"]
    /\ max_workers \in 1..MaxWorkers
    /\ collected = {}
    /\ pbar = 0
    /\ bpc = "collecting"

\* ProcessPoolExecutor: a free worker takes a pending job; leaving the
\* with-block (395) waits for the jobs, it cancels none.
StartJob(j) ==
    /\ jobState[j] = "pending"
    /\ Cardinality(Running) < max_workers
    /\ jobState' = [jobState EXCEPT ![j] = "running"]
    /\ UNCHANGED <<max_workers, collected, pbar, bpc, mainVars, unitVars, pureVars>>

\* process_comic_folder returns or raises in its worker.
FinishJob(j) ==
    /\ jobState[j] = "running"
    /\ \E r \in {"done", "raised"} : jobState' = [jobState EXCEPT ![j] = r]
    /\ UNCHANGED <<max_workers, collected, pbar, bpc, mainVars, unitVars, pureVars>>

\* submit_dir_comb 404-411: as_completed yields a finished future.
Collect(j) ==
    /\ bpc = "collecting"
    /\ j \in Finished \ collected
    /\ collected' = collected \cup {j}
    /\ pbar' = pbar + 1
    /\ bpc' = CollectNext(jobState[j])
    /\ UNCHANGED <<jobState, max_workers, mainVars, unitVars, pureVars>>

\* submit_dir_comb 404, 395: as_completed is exhausted and the pool shut down.
BatchReturn ==
    /\ bpc = "collecting"
    /\ collected = Submitted
    /\ bpc' = "returned"
    /\ UNCHANGED <<jobState, max_workers, collected, pbar, mainVars, unitVars, pureVars>>

NextBatch ==
    \/ \E j \in Jobs : StartJob(j)
    \/ \E j \in Jobs : FinishJob(j)
    \/ \E j \in Jobs : Collect(j)
    \/ BatchReturn

SpecBatch == InitBatch /\ [][NextBatch]_vars

\* ------------------------------------------- process_image: dimensions
InitIdleButImage ==
    /\ InitMain /\ delete_source_targz /\ InitUnitIdle /\ InitBatchIdle
    /\ InitMetaIdle /\ InitClassIdle /\ InitRootIdle

\* round(d * (m / r) ** 0.5) for r > m: the integer nearest to d*sqrt(m/r),
\* the even one of the two when d*sqrt(m/r) lies half way (Python's round).
\* n is nearest iff (2n-1)^2 * r <= 4*d*d*m <= (2n+1)^2 * r.
RoundScaled(d, m, r) ==
    LET x4 == 4 * d * d * m
        near == {n \in 0..d :
                    /\ (n = 0 \/ (2*n - 1) * (2*n - 1) * r <= x4)
                    /\ x4 <= (2*n + 1) * (2*n + 1) * r}
    IN  IF Cardinality(near) = 1
        THEN CHOOSE n \in near : TRUE
        ELSE CHOOSE n \in near : n % 2 = 0

\* process_image 179-186
ScaledNever(d, w, h, m) == d
Scaled(d, w, h, m) == IF w * h > m THEN RoundScaled(d, m, w * h) ELSE d

\* process_image 188-191
EvenDown(n) == IF n % 2 # 0 THEN n - 1 ELSE n
EvenUp(n) == IF n % 2 # 0 THEN n + 1 ELSE n

\* process_image 176-177: ffprobe reports the dimensions.
InitImage ==
    /\ InitIdleButImage
    /\ ipc = "probed"
    /\ width \in 1..MaxDim
    /\ height \in 1..MaxDim
    /\ max_resolution \in 1..MaxRes
    /\ target_width = 0
    /\ target_height = 0

\* process_image 179-186
ScaleDown ==
    /\ ipc = "probed"
    /\ target_width' = Scaled(width, width, height, max_resolution)
    /\ target_height' = Scaled(height, width, height, max_resolution)
    /\ ipc' = "scaled"
    /\ UNCHANGED <<width, height, max_resolution, mainVars, unitVars, batchVars,
                   metaVars, classVars, rootVars>>

\* process_image 188-191; the result goes into the scale filter (201, 204).
ForceEven ==
    /\ ipc = "scaled"
    /\ target_width' = EvenUp(target_width)
    /\ target_height' = EvenUp(target_height)
    /\ ipc' = "transcode"
    /\ UNCHANGED <<width, height, max_resolution, mainVars, unitVars, batchVars,
                   metaVars, classVars, rootVars>>

NextImage ==
    \/ ScaleDown
    \/ ForceEven

SpecImage == InitImage /\ [][NextImage]_vars

\* -------------------------------- process_comic_folder: metadata and dates
Times == 1..MaxTime
\* datetime.now(): later than every file time.
Now == MaxTime + 1
Max(S) == CHOOSE x \in S : \A y \in S : y <= x
Min(S) == CHOOSE x \in S : \A y \in S : x <= y

NameChars == {"[", "]", "a"}
Names == UNION {[1..n -> NameChars] : n \in 0..MaxName}

\* process_comic_folder 337-341: re.search(r'\[(.*?)\]', comic_title): the
\* leftmost "[" that has a "]" after it, up to the first such "]".
ExtractAuthorGreedy(name) ==
    LET opens == {i \in 1..Len(name) :
                    name[i] = "[" /\ \E j \in (i+1)..Len(name) : name[j] = "]"}
    IN  IF opens = {} THEN NoAuthor
        ELSE LET i == Min(opens)
                 j == Max({k \in (i+1)..Len(name) : name[k] = "]"})
             IN  SubSeq(name, i + 1, j - 1)
extract_author(name) ==
    LET opens == {i \in 1..Len(name) :
                    name[i] = "[" /\ \E j \in (i+1)..Len(name) : name[j] = "]"}
    IN  IF opens = {} THEN NoAuthor
        ELSE LET i == Min(opens)
                 j == Min({k \in (i+1)..Len(name) : name[k] = "]"})
             IN  SubSeq(name, i + 1, j - 1)

\* process_comic_folder 331-335
LatestModTimeFolderFallback(mtimes) == IF mtimes # {} THEN Max(mtimes) ELSE folderMtime
LatestModTime(mtimes) == IF mtimes # {} THEN Max(mtimes) ELSE Now

\* The formats of a Downloaded value: "hm" is YYYY-MM-DD HH:MM, "hms" has
\* seconds as well, "bad" is anything else.
\* process_comic_folder 358-363: strptime with '%Y-%m-%d %H:%M' only.
ParsesInFolder(kind) == kind = "hm"
\* get_comic_date 113-125: '%Y-%m-%d %H:%M', then '%Y-%m-%d %H:%M:%S'.
ParsesInGetComicDate(kind) == kind \in {"hm", "hms"}

\* get_comic_date 101-152
GetComicDateImagesFirst ==
    IF imageMtimes # {} THEN Max(imageMtimes)
    ELSE IF descriptor.exists /\ ParsesInGetComicDate(descriptor.downloaded.kind)
    THEN descriptor.downloaded.date
    ELSE folderMtime
get_comic_date ==
    IF descriptor.exists /\ ParsesInGetComicDate(descriptor.downloaded.kind)
    THEN descriptor.downloaded.date
    ELSE IF imageMtimes # {} THEN Max(imageMtimes)
    ELSE folderMtime

\* process_comic_folder 389: the time handed to os.utime.
ArchiveTimeFromGalleryInfo == galleryinfo.download_time
ArchiveTime == latest_mod_time

Descriptors ==
    {NoDescriptor} \cup
    [exists : {TRUE},
     title : {Absent, <<"T">>},
     author : {Absent, <<"A">>},
     tags : {Absent, <<"x", ",", "y">>},
     downloaded : {[kind |-> "absent", date |-> 0]}
                    \cup [kind : {"hm", "hms"}, date : Times]
                    \cup {[kind |-> "bad", date |-> 0]}]

InitIdleButMeta ==
    /\ InitMain /\ delete_source_targz /\ InitUnitIdle /\ InitBatchIdle
    /\ InitImageIdle /\ InitClassIdle /\ InitRootIdle

\* A unit directory as process_comic_folder finds it.
InitMeta ==
    /\ InitIdleButMeta
    /\ mpc = "defaults"
    /\ comic_name \in Names
    /\ imageMtimes \in SUBSET Times
    /\ folderMtime \in Times
    /\ descriptor \in Descriptors
    /\ organize_by_date \in BOOLEAN
    /\ latest_mod_time = 0
    /\ galleryinfo = NoGalleryInfo
    /\ comicinfo = NoGalleryInfo
    /\ cbz_dir = <<"unset", 0>>
    /\ cbz_mtime = 0

\* process_comic_folder 324-348
DefaultGalleryInfo ==
    /\ mpc = "defaults"
    /\ latest_mod_time' = LatestModTime(imageMtimes)
    /\ galleryinfo' = [title |-> comic_name,
                       author |-> extract_author(comic_name),
                       download_time |-> LatestModTime(imageMtimes),
                       tags |-> <<>>]
    /\ mpc' = "descriptor"
    /\ UNCHANGED <<metaInputs, comicinfo, cbz_dir, cbz_mtime,
                   mainVars, unitVars, batchVars, imageVars, classVars,
                   rootVars>>

\* process_comic_folder 350-367
ReadDescriptor ==
    /\ mpc = "descriptor"
    /\ galleryinfo' =
         IF ~descriptor.exists THEN galleryinfo
         ELSE [title |-> IF descriptor.title # Absent
                         THEN descriptor.title ELSE galleryinfo.title,
               author |-> IF descriptor.author # Absent
                          THEN descriptor.author ELSE galleryinfo.author,
               download_time |-> IF ParsesInFolder(descriptor.downloaded.kind)
                                 THEN descriptor.downloaded.date
                                 ELSE galleryinfo.download_time,
               tags |-> IF descriptor.tags # Absent
                        THEN descriptor.tags ELSE galleryinfo.tags]
    /\ mpc' = "xml"
    /\ UNCHANGED <<metaInputs, latest_mod_time, comicinfo, cbz_dir, cbz_mtime,
                   mainVars, unitVars, batchVars, imageVars, classVars,
                   rootVars>>

\* create_comicinfo_xml_galleryinfo 298-311: Title, Writer, Year/Month/Day
\* of download_time, Tags.
WriteXml ==
    /\ mpc = "xml"
    /\ comicinfo' = galleryinfo
    /\ mpc' = "path"
    /\ UNCHANGED <<metaInputs, latest_mod_time, galleryinfo, cbz_dir, cbz_mtime,
                   mainVars, unitVars, batchVars, imageVars, classVars,
                   rootVars>>

\* process_comic_folder 372-382
PlaceArchive ==
    /\ mpc = "path"
    /\ cbz_dir' = IF organize_by_date THEN <<"year/month", get_comic_date>>
                  ELSE <<"target_dir", 0>>
    /\ mpc' = "utime"
    /\ UNCHANGED <<metaInputs, latest_mod_time, galleryinfo, comicinfo, cbz_mtime,
                   mainVars, unitVars, batchVars, imageVars, classVars,
                   rootVars>>

\* process_comic_folder 385-389
SetArchiveTimes ==
    /\ mpc = "utime"
    /\ cbz_mtime' = ArchiveTime
    /\ mpc' = "done"
    /\ UNCHANGED <<metaInputs, latest_mod_time, galleryinfo, comicinfo, cbz_dir,
                   mainVars, unitVars, batchVars, imageVars, classVars,
                   rootVars>>

NextMeta ==
    \/ DefaultGalleryInfo
    \/ ReadDescriptor
    \/ WriteXml
    \/ PlaceArchive
    \/ SetArchiveTimes

SpecMeta == InitMeta /\ [][NextMeta]_vars

\* ------------------------------------------- classification of directories
\* The files of one directory, counted by kind: image extension or not, and
\* named with @eaDir or @Recycle (dropped by is_imgfiles) or not.
Listings ==
    {l \in [img : 0..MaxFiles, other : 0..MaxFiles,
            dropped_img : 0..MaxFiles, dropped_other : 0..MaxFiles] :
        l.img + l.other + l.dropped_img + l.dropped_other <= MaxFiles}

\* get_img_dir_comb.is_imgfiles 263-273
IsImgfilesKeepingDropped(l) ==
    IF l.other + l.dropped_other > 2 THEN FALSE
    ELSE l.img + l.dropped_img >= 1
is_imgfiles(l) ==
    IF l.other > 2 THEN FALSE
    ELSE IF l.img + l.other > 0 /\ l.img >= 1 THEN TRUE
    ELSE FALSE

\* '@eaDir' in root or '@Recycle' in root: root is the whole path.
Ancestors(d) ==
    {Dirs[m] : m \in {n \in 1..Len(Dirs) : \E k \in (n+1)..Len(Dirs) : Dirs[k] = d}}
RootReserved(d) == nameReserved[d] \/ \E a \in Ancestors(d) : nameReserved[a]

\* get_galleryinfo_dir_comb 414-442: .txt files are left out of the count (the
\* listing's "other" files are the ones that are neither images nor .txt), a
\* reserved directory is skipped with all below it, and the gate file must be
\* there. No directory of the tree is named finished.
get_galleryinfo_dir_comb ==
    {d \in DirSet : ~RootReserved(d) /\ is_imgfiles(listing[d]) /\ gate[d]}

InitIdleButClass ==
    /\ InitMain /\ delete_source_targz /\ InitUnitIdle /\ InitBatchIdle
    /\ InitImageIdle /\ InitMetaIdle /\ InitRootIdle

InitClassify ==
    /\ InitIdleButClass
    /\ listing \in [DirSet -> Listings]
    /\ nameReserved \in [DirSet -> BOOLEAN]
    /\ gate = [d \in DirSet |-> FALSE]
    /\ walk = Dirs
    /\ scan_no = 1
    /\ dir_comb = {}
    /\ first_comb = {}

\* get_img_dir_comb 275-278: one turn of the os.walk loop.
VisitDir ==
    /\ walk # <<>>
    /\ LET root == Head(walk)
       IN  dir_comb' = IF is_imgfiles(listing[root]) /\ ~RootReserved(root)
                       THEN dir_comb \cup {root} ELSE dir_comb
    /\ walk' = Tail(walk)
    /\ UNCHANGED <<listing, nameReserved, gate, scan_no, first_comb,
                   mainVars, unitVars, batchVars, imageVars, metaVars, rootVars>>

\* get_img_dir_comb 279, and a second call on the same tree.
ScanAgain ==
    /\ walk = <<>>
    /\ scan_no = 1
    /\ first_comb' = dir_comb
    /\ dir_comb' = {}
    /\ walk' = Dirs
    /\ scan_no' = 2
    /\ UNCHANGED <<listing, nameReserved, gate,
                   mainVars, unitVars, batchVars, imageVars, metaVars, rootVars>>

NextClassify == VisitDir \/ ScanAgain

SpecClassify == InitClassify /\ [][NextClassify]_vars

\* ------------------------------------------------ main with a gate filename
\* main 445-547 takes gallery_info and never reads it: with a gate filename
\* configured the loop is the same, and a source directory that holds unit
\* directories and no .tar.gz file is scanned and slept on.
InitGated ==
    /\ InitMain /\ delete_source_targz /\ InitUnitIdle /\ InitBatchIdle
    /\ InitImageIdle /\ InitMetaIdle /\ InitRootIdle
    /\ listing \in [DirSet -> Listings]
    /\ nameReserved \in [DirSet -> BOOLEAN]
    /\ gate \in [DirSet -> BOOLEAN]
    /\ walk = <<>>
    /\ scan_no = 0
    /\ dir_comb = {}
    /\ first_comb = {}

NextGated == ScanEmpty \/ Sleep

SpecGated == InitGated /\ [][NextGated]_vars

\* ------------------------------------------------- main: the unit's root
EntryKinds == {"none", "file", "dir"}
Present(items) == {e \in EntryNames : items[e] # "none"}

\* main 495-501
ComicSourceDirSoleDirAmongFiles(items) ==
    LET dirs == {e \in EntryNames : items[e] = "dir"}
    IN  IF Cardinality(dirs) = 1
        THEN <<"dir", CHOOSE e \in dirs : TRUE>>
        ELSE <<"extracted", 0>>
ComicSourceDir(items) ==
    IF Cardinality(Present(items)) = 1
       /\ items[CHOOSE e \in Present(items) : TRUE] = "dir"
    THEN <<"dir", CHOOSE e \in Present(items) : TRUE>>
    ELSE <<"extracted", 0>>

InitRoot ==
    /\ InitMain /\ delete_source_targz /\ InitUnitIdle /\ InitBatchIdle
    /\ InitImageIdle /\ InitMetaIdle /\ InitClassIdle
    /\ rpc = "extract"
    /\ archive_entries \in [EntryNames -> EntryKinds]
    /\ extracted_items = [e \in EntryNames |-> "none"]
    /\ unit_root = NoDir

\* main 491, 495
ListExtracted ==
    /\ rpc = "extract"
    /\ extracted_items' = archive_entries
    /\ rpc' = "choose"
    /\ UNCHANGED <<archive_entries, unit_root,
                   mainVars, unitVars, batchVars, imageVars, metaVars, classVars>>

\* main 496-501
ChooseUnitRoot ==
    /\ rpc = "choose"
    /\ unit_root' = ComicSourceDir(extracted_items)
    /\ rpc' = "convert"
    /\ UNCHANGED <<archive_entries, extracted_items,
                   mainVars, unitVars, batchVars, imageVars, metaVars, classVars>>

NextRoot == ListExtracted \/ ChooseUnitRoot

SpecRoot == InitRoot /\ [][NextRoot]_vars

\* ----------------------------------------------------------------- claims

\* C1: in archive-source polling, an input whose processing failed at any
\* step (extraction, unit root, conversion/packaging, move of the archive)
\* ends up in source/failed and is not deleted. Stated for every input whose
\* pass is over and whose file nobody else removed.
C1_FailedInputIsInFailedDir ==
    \A i \in Inputs :
        (stage[i] = "failed" /\ targz_path # i /\ loc[i] # "gone")
            => loc[i] = "failed"

\* C2: every input goes discovered, extracting, converting, publishing in
\* that order; a pass over it ends in exactly one of done and failed; and
\* failed is terminal: a failed input is never listed by a later scan nor
\* taken up by the for-loop again. (A done input that is still in the source
\* directory starts a new pass at discovered; whether that may happen is the
\* subject of C3.)
StageEdges ==
    { <<None, "discovered">>, <<"discovered", "extracting">>,
      <<"extracting", "converting">>, <<"converting", "publishing">>,
      <<"publishing", "done">>, <<"extracting", "failed">>,
      <<"converting", "failed">>, <<"publishing", "failed">>,
      <<"done", "discovered">> }
C2_StagesInOrderFailedTerminal ==
    [][\A i \in Inputs :
          /\ stage'[i] # stage[i] => <<stage[i], stage'[i]>> \in StageEdges
          /\ (targz_path = i /\ targz_path' # i) => stage'[i] \in {"done", "failed"}
          /\ stage[i] = "failed" =>
                /\ stage'[i] = "failed"
                /\ i \notin targz_files_to_process'
                /\ targz_path' = i => targz_path = i]_vars
\* An input failed in the first cycle and a second cycle has run since.
C2_Witness ==
    \E i \in Inputs :
        /\ stage[i] = "failed"
        /\ loc[i] = "failed"
        /\ run_count = 2
        /\ pc = "scan"

\* C3: whatever delete_source_targz is, no input is converted and published
\* more than once over the cycles of a run.
C3_ConsumedExactlyOnce == \A i \in Inputs : convCount[i] <= 1

\* C4: the notification is fired once per idle transition: an empty scan
\* calls scan_library_with_env exactly once if a batch completed since the
\* previous empty scan, and not at all otherwise; no other step calls it,
\* and it is not called before the first batch has run.
C4_OneNotificationPerIdleTransition ==
    [][LET fired == notifyCalls' - notifyCalls
           emptyScan == pc = "scan" /\ pc' \notin {"scan", "for"}
       IN  /\ fired \in {0, 1}
           /\ (fired = 1) <=> (emptyScan /\ batchSinceIdle)
           /\ run_count = 0 => fired = 0]_vars
\* One batch of two inputs, then the idle scan that fired the one call.
C4_Witness ==
    /\ run_count = 1
    /\ notifyCalls = 1
    /\ pc = "sleep"
    /\ Cardinality({i \in Inputs : stage[i] \in {"done", "failed"}}) >= 2

C6_ArchiveHoldsExactlyNormalizedImages ==
    cbz.closed => cbz.written = {ComicInfoXml} \cup {Target(k) : k \in okImgs}

\* C7: two different inputs never get the same final archive path.
C7_DistinctUnitsDistinctPaths ==
    \A i, j \in Inputs :
        (i # j /\ convCount[i] > 0 /\ convCount[j] > 0)
            => CbzPath(UnitRoot(i)) # CbzPath(UnitRoot(j))

\* C8: in submit_dir_comb a job's exception is caught by the collecting
\* loop: the call never ends by raising, and when it returns every submitted
\* job has run to its end and the progress count equals the number of jobs.
C8_FailuresIsolatedProgressComplete ==
    /\ bpc # "raised"
    /\ collected \subseteq Finished
    /\ pbar = Cardinality(collected)
    /\ bpc = "returned" =>
          /\ Finished = Submitted
          /\ pbar = Cardinality(Submitted)
\* A returned batch in which one job raised and another finished normally.
C8_Witness ==
    /\ bpc = "returned"
    /\ \E j, k \in Jobs : jobState[j] = "raised" /\ jobState[k] = "done"
    /\ pbar = NumJobs

\* C9: main never terminates because of one bad input, whatever step fails,
\* the relocation to failed/ included.
C9_MainNeverTerminates == pc # "crashed"

\* C10: the notification call is non-fatal: with an environment variable
\* missing it raises before any request is sent, and after every outcome
\* the loop goes on to sleep and rescan; only HTTP 202 counts as success.
C10_NotificationNonFatal ==
    [][notifyCalls' # notifyCalls =>
          /\ pc' = "sleep"
          /\ uncaught' = uncaught
          /\ (notifyOutcome' = "env_missing") <=> (httpPosts' = httpPosts)
          /\ (notifyOutcome' = "env_missing") <=> (scanResult' = "raised")
          /\ (notifyOutcome' = "status_202") <=> (scanResult' = "success")]_vars
\* A call that raised on the missing configuration, and a batch run after it.
C10_Witness ==
    /\ scanResult = "raised"
    /\ httpPosts = 0
    /\ run_count = 2

\* C11 (as claimed): for an image with width*height <= max_resolution the
\* dimensions handed to the transcoder equal the source width and height.
C11_SmallImageKeepsDimensions ==
    (ipc = "transcode" /\ width * height <= max_resolution)
        => (target_width = width /\ target_height = height)
\* C11 (amended): such an image is not scaled: each dimension handed to the
\* transcoder is the source dimension, plus one when that is odd.
C11_SmallImageOnlyMadeEven ==
    (ipc = "transcode" /\ width * height <= max_resolution)
        => /\ target_width = width + (width % 2)
           /\ target_height = height + (height % 2)
\* An image within the limit with an odd width and an even height.
C11_Witness ==
    /\ ipc = "transcode"
    /\ width * height <= max_resolution
    /\ width = 3
    /\ height = 2
    /\ target_width = 4

\* C12: for an image with width*height > max_resolution both output
\* dimensions are even and their product is max_resolution within rounding:
\* each dimension exceeds the exact scaled one, d*sqrt(max/res), by at most
\* 1.5 (half for rounding to nearest, one for making it even), that is
\* (2*out - 3)^2 * res <= 4*d^2*max whenever 2*out > 3; so
\* (out_w - 1.5)*(out_h - 1.5) <= max_resolution.
WithinRounding(out, d, m, r) ==
    2 * out > 3 => (2*out - 3) * (2*out - 3) * r <= 4 * d * d * m
C12_LargeImageEvenAndBounded ==
    (ipc = "transcode" /\ width * height > max_resolution)
        => /\ target_width % 2 = 0
           /\ target_height % 2 = 0
           /\ WithinRounding(target_width, width, max_resolution, width * height)
           /\ WithinRounding(target_height, height, max_resolution, width * height)
           /\ (target_width >= 2 /\ target_height >= 2) =>
                 (2*target_width - 3) * (2*target_height - 3) <= 4 * max_resolution
\* A scaled-down image whose rounded width was odd and was made even.
C12_Witness ==
    /\ ipc = "transcode"
    /\ width = 6 /\ height = 5 /\ max_resolution = 10
    /\ target_width = 4
    /\ target_height = 4

\* The date the specification derives for a unit: the descriptor's Downloaded
\* value in either accepted format, else the latest image time, else the
\* directory's own time.
DerivedDate ==
    IF descriptor.exists /\ descriptor.downloaded.kind \in {"hm", "hms"}
    THEN descriptor.downloaded.date
    ELSE IF imageMtimes # {} THEN Max(imageMtimes)
    ELSE folderMtime

C17_ArchiveTimesAreDerivedDate ==
    mpc = "done" => cbz_mtime = DerivedDate

\* C17 as the code has it: the archive's times are the latest image time, or
\* the current time when the unit has no images, whatever the descriptor and
\* the directory time say.
C17_ArchiveTimesAreLatestImageTime ==
    mpc = "done" =>
        cbz_mtime = (IF imageMtimes # {} THEN Max(imageMtimes) ELSE Now)

C17_Witness ==
    /\ mpc = "done"
    /\ descriptor.exists /\ descriptor.downloaded.kind = "hm"
    /\ descriptor.downloaded.date = 1
    /\ imageMtimes = {1, 2}
    /\ cbz_mtime = 2

\* C18: a descriptor overrides the defaults field by field, the overridden
\* values are the ones written to ComicInfo.xml, and a Downloaded value is
\* accepted in the minute format and in the format with seconds.
C18_DescriptorOverridesFieldByField ==
    (mpc \in {"path", "utime", "done"} /\ descriptor.exists) =>
        /\ descriptor.title # Absent => comicinfo.title = descriptor.title
        /\ descriptor.author # Absent => comicinfo.author = descriptor.author
        /\ descriptor.tags # Absent => comicinfo.tags = descriptor.tags
        /\ descriptor.downloaded.kind \in {"hm", "hms"} =>
               comicinfo.download_time = descriptor.downloaded.date

\* a is the first bracket-delimited substring of name.
FirstBracketed(a, name) ==
    \E i \in 1..Len(name) :
        /\ name[i] = "["
        /\ \A k \in 1..(i-1) : name[k] # "["
        /\ i + Len(a) + 1 <= Len(name)
        /\ name[i + Len(a) + 1] = "]"
        /\ \A k \in 1..Len(a) : a[k] = name[i + k] /\ a[k] # "]"
Bracketed(name) ==
    \E i, j \in 1..Len(name) : i < j /\ name[i] = "[" /\ name[j] = "]"

DefaultTextFields ==
    /\ galleryinfo.title = comic_name
    /\ galleryinfo.tags = <<>>
    /\ IF Bracketed(comic_name)
       THEN galleryinfo.author # NoAuthor
            /\ FirstBracketed(galleryinfo.author, comic_name)
       ELSE galleryinfo.author = NoAuthor

\* C19 as stated: without a descriptor, title is the directory name, author
\* its first bracket-delimited substring or none, tags empty, and the date the
\* latest image time, or the directory's own time when there are no images.
C19_DefaultsUseDirectoryTime ==
    (mpc \in {"xml", "path", "utime", "done"} /\ ~descriptor.exists) =>
        /\ DefaultTextFields
        /\ galleryinfo.download_time =
              (IF imageMtimes # {} THEN Max(imageMtimes) ELSE folderMtime)

\* C19 as the code has it: the same, except that the date of a unit without
\* images is the current time; the directory's own time is not consulted.
C19_DefaultsUseCurrentTime ==
    (mpc \in {"xml", "path", "utime", "done"} /\ ~descriptor.exists) =>
        /\ DefaultTextFields
        /\ galleryinfo.download_time =
              (IF imageMtimes # {} THEN Max(imageMtimes) ELSE Now)

C19_Witness ==
    /\ mpc = "done" /\ ~descriptor.exists
    /\ comic_name = <<"[", "a", "]">>
    /\ galleryinfo.author = <<"a">>
    /\ imageMtimes = {}
    /\ galleryinfo.download_time = Now

\* C14: the default classifier returns a directory exactly when, the files
\* with reserved names left aside, it has at least one image and at most 2
\* other files and its path has no reserved part; so an empty directory, one
\* without images and one with more than 2 other files are never returned;
\* and a second scan of the unchanged tree returns the same set.
C14_ClassifierRuleAndIdempotence ==
    /\ walk = <<>> =>
         \A d \in DirSet :
            /\ d \in dir_comb <=>
                 /\ listing[d].img >= 1
                 /\ listing[d].other <= 2
                 /\ ~nameReserved[d]
                 /\ \A a \in Ancestors(d) : ~nameReserved[a]
            /\ listing[d].img + listing[d].other = 0 => d \notin dir_comb
            /\ listing[d].img = 0 => d \notin dir_comb
            /\ listing[d].other > 2 => d \notin dir_comb
    /\ (walk = <<>> /\ scan_no = 2) => dir_comb = first_comb

C14_Witness ==
    /\ walk = <<>> /\ scan_no = 2
    /\ listing["comic"] = [img |-> 1, other |-> 2, dropped_img |-> 0, dropped_other |-> 1]
    /\ listing["comic/extras"].other = 3
    /\ dir_comb = {"comic"}
    /\ first_comb = {"comic"}

\* C15: with a gate filename configured, once a scan cycle is over the units
\* holding the gate file have been converted and moved to the finished area,
\* so none is left for the next scan to return.
C15_GatedUnitsLeaveTheSource ==
    pc = "sleep" => get_galleryinfo_dir_comb = {}

\* C16: the unit root is the sole top-level entry when extraction produced
\* exactly one entry and it is a directory, and the extraction root otherwise.
C16_UnitRootChoice ==
    rpc = "convert" =>
        IF \E e \in EntryNames :
              /\ extracted_items[e] = "dir"
              /\ \A f \in EntryNames \ {e} : extracted_items[f] = "none"
        THEN \E e \in EntryNames :
              extracted_items[e] = "dir" /\ unit_root = <<"dir", e>>
        ELSE unit_root = <<"extracted", 0>>

C16_Witness ==
    /\ rpc = "convert"
    /\ extracted_items[1] = "dir" /\ extracted_items[2] = "file"
    /\ extracted_items[3] = "none" /\ extracted_items[4] = "none"
    /\ unit_root = <<"extracted", 0>>

\* C20: no returned unit lies inside another returned unit.
C20_NoNestedUnits ==
    \A d \in dir_comb : \A a \in Ancestors(d) : a \notin dir_comb

\* C21: no input is lost. An input that main has deleted from the source
\* directory had its archive moved to the publication directory before, it
\* was never relocated to failed, and at the step that deletes it the archive
\* moved last is its own.
C21_DeletedOnlyAfterPublication ==
    /\ [](\A i \in Inputs :
            loc[i] = "deleted" => (convCount[i] >= 1 /\ stage[i] = "done"))
    /\ [][\A i \in Inputs :
            (loc[i] # "deleted" /\ loc'[i] = "deleted") =>
                /\ loc[i] = "source"
                /\ convCount[i] >= 1
                /\ published[CbzPath(comic_source_dir)].owner = i]_vars

C21_Witness ==
    \E i, j \in Inputs :
        /\ loc[i] = "deleted" /\ convCount[i] = 1
        /\ loc[j] = "failed" /\ convCount[j] = 0

\* C22 as stated: the notification is fired only if an archive was published
\* since the previous notification, or since the start.
C22_NotificationOnlyAfterPublication ==
    [][notifyCalls' # notifyCalls => publishedSinceNotify]_vars

\* C22 as the code has it: the notification is fired only if a processing
\* cycle ran to its end since the previous notification, or since the start,
\* whether or not an archive was published in it.
C22_NotificationOnlyAfterCycle ==
    [][notifyCalls' # notifyCalls =>
          /\ batchSinceIdle
          /\ scan_needed
          /\ run_count >= 1]_vars

\* Every input of the only cycle failed, and the call was made.
C22_Witness ==
    /\ notifyCalls = 1
    /\ run_count = 1
    /\ \A i \in Inputs : stage[i] = "failed" /\ convCount[i] = 0

\* C23: under fairness every input the loop discovered eventually leaves the
\* source directory, and a notification that is owed is eventually fired.
\* (Arrivals stop by themselves, each input arriving once; the behaviours are
\* followed as far as MaxRuns cycles, so nothing is asked once they are used
\* up.)
C23_InputsLeaveAndNotificationFires ==
    /\ \A i \in Inputs :
          (stage[i] = "discovered") ~> (loc[i] # "source" \/ run_count = MaxRuns)
    /\ scan_needed ~> (~scan_needed \/ run_count = MaxRuns)

====
